---- MODULE Spec2Model ----
(***************************************************************************)
(* A model of the C## interpreter (src/src/cshs.py): the lexer, the        *)
(* expression parser, the tree-walking evaluator with run_source, and the  *)
(* REPL loop of main.                                                      *)
(*                                                                         *)
(* Source text is a sequence of one-character strings.  A dotted name      *)
(* ('.'.join(parts)) is the sequence of its parts, so "'.' in name" is     *)
(* Len(name) > 1 and name.split('.') is the name itself.                   *)
(***************************************************************************)
EXTENDS Integers, Sequences, FiniteSets, TLC

VARIABLES
    src,        \* lexer/parser: the source string handed to lex
    toks,       \* lexer/parser: the token list lex returned
    lexError,   \* lexer/parser: the error lex raised, if any
    ast,        \* parser: what parse_expression returned or raised
    fpc,        \* lexer/parser: "src" -> "lexed" -> "parsed"
    prog,       \* run_source: prog['body'], the top-level items
    phase,      \* run_source: "hoist" -> "exec" -> "returned" | "raised" | "hung"
    pc,         \* run_source: the index of the item the second loop is at
    globals,    \* rt.globals
    functions,  \* rt.functions
    stdout,     \* the lines written to standard output
    result,     \* run_source: the value returned
    error,      \* run_source: the exception that left it
    input,      \* REPL: the lines standard input holds
    rpos,       \* REPL: how many of them have been read
    byRepl,     \* REPL: for each line read, whether the REPL's own input() read it
    buf,        \* REPL: the local buf of main
    rstate,     \* REPL: "reading" | "hung" | "exited"
    runs,       \* REPL: the calls of run_source so far, with their outcome
    reports     \* REPL: how many 'Error:' lines were printed

frontVars == <<src, toks, lexError, ast, fpc>>

runVars == <<prog, phase, pc, globals, functions, stdout, result, error>>

replVars == <<input, rpos, byRepl, buf, rstate, runs, reports>>

vars == <<src, toks, lexError, ast, fpc, prog, phase, pc, globals, functions, stdout, result, error,
          input, rpos, byRepl, buf, rstate, runs, reports>>

(***************************************************************************)
(* Bounds                                                                  *)
(***************************************************************************)
MaxLexLen == 3      \* longest source string handed to lex alone
MaxParseLen == 5    \* longest source string handed to lex and parse_expression
MaxDepth == 3       \* user-function calls nested deeper than this raise RecursionError
MaxItems == 3       \* most top-level items of a program

(***************************************************************************)
(* Lexer: TOKEN_SPEC, MASTER, KEYWORDS, lex                                *)
(***************************************************************************)
Digits == {"0", "1", "2", "3", "4", "5", "6", "7", "8", "9"}

Letters ==
    {"a", "b", "c", "d", "e", "f", "g", "h", "i", "j", "k", "l", "m",
     "n", "o", "p", "q", "r", "s", "t", "u", "v", "w", "x", "y", "z",
     "A", "B", "C", "D", "E", "F", "G", "H", "I", "J", "K", "L", "M",
     "N", "O", "P", "Q", "R", "S", "T", "U", "V", "W", "X", "Y", "Z", "_"}

WsChars == {" ", "\t", "\r", "\n"}

Op2 == {<<"=", "=">>, <<"!", "=">>, <<"<", "=">>, <<">", "=">>,
        <<"&", "&">>, <<"|", "|">>}

Op1 == {"+", "-", "*", "/", "%", "<", ">", "=", "!", ".", ",", ";", ":",
        "{", "}", "(", ")", "[", "]"}

\* KEYWORDS, each with the token type v.upper() gives it.
KEYWORDS ==
    (<<"i", "f">> :> "IF") @@ (<<"e", "l", "s", "e">> :> "ELSE") @@
    (<<"w", "h", "i", "l", "e">> :> "WHILE") @@ (<<"f", "o", "r">> :> "FOR") @@
    (<<"f", "o", "r", "e", "a", "c", "h">> :> "FOREACH") @@ (<<"i", "n">> :> "IN") @@
    (<<"r", "e", "t", "u", "r", "n">> :> "RETURN") @@
    (<<"n", "a", "m", "e", "s", "p", "a", "c", "e">> :> "NAMESPACE") @@
    (<<"u", "s", "i", "n", "g">> :> "USING") @@ (<<"v", "a", "r">> :> "VAR") @@
    (<<"i", "n", "t">> :> "INT") @@ (<<"f", "l", "o", "a", "t">> :> "FLOAT") @@
    (<<"s", "t", "r", "i", "n", "g">> :> "STRING") @@ (<<"b", "o", "o", "l">> :> "BOOL") @@
    (<<"L", "i", "s", "t">> :> "LIST") @@ (<<"t", "r", "u", "e">> :> "TRUE") @@
    (<<"f", "a", "l", "s", "e">> :> "FALSE")

\* The first index j >= i with s[j] outside cls (Len(s)+1 when there is none):
\* where a greedy  [cls]*  starting at i stops.
RECURSIVE SpanEnd(_, _, _)
SpanEnd(s, i, cls) ==
    IF i <= Len(s) /\ s[i] \in cls THEN SpanEnd(s, i + 1, cls) ELSE i

\* Each Match* gives the index just past the match of its pattern at i, or 0
\* when the pattern does not match at i.

\* NUMBER  \d+(?:\.\d+)?
MatchNumber(s, i) ==
    IF s[i] \notin Digits THEN 0
    ELSE LET j == SpanEnd(s, i, Digits)
         IN  IF j + 1 <= Len(s) /\ s[j] = "." /\ s[j + 1] \in Digits
             THEN SpanEnd(s, j + 1, Digits)
             ELSE j

\* The body and closing quote of STRING from j:  (?:\\.|[^"\\])*"
RECURSIVE StringBodyEnd(_, _)
StringBodyEnd(s, j) ==
    IF j > Len(s) THEN 0
    ELSE IF s[j] = "\"" THEN j + 1
    ELSE IF s[j] = "\\"
         THEN IF j + 1 <= Len(s) /\ s[j + 1] # "\n" THEN StringBodyEnd(s, j + 2) ELSE 0
    ELSE StringBodyEnd(s, j + 1)

\* STRING  "(?:\\.|[^"\\])*"
MatchString(s, i) == IF s[i] = "\"" THEN StringBodyEnd(s, i + 1) ELSE 0

\* ID  [A-Za-z_][A-Za-z0-9_]*
MatchId(s, i) ==
    IF s[i] \in Letters THEN SpanEnd(s, i + 1, Letters \cup Digits) ELSE 0

\* OP  ==|!=|<=|>=|&&|\|\||[+\-*/%<>=!.,;:{}()[\]]
MatchOp(s, i) ==
    IF i + 1 <= Len(s) /\ <<s[i], s[i + 1]>> \in Op2 THEN i + 2
    ELSE IF s[i] \in Op1 THEN i + 1
    ELSE 0

\* WS  [ \t\r\n]+
MatchWs(s, i) == IF s[i] \in WsChars THEN SpanEnd(s, i + 1, WsChars) ELSE 0

\* The first index j >= i with s[j] a newline (Len(s)+1 when there is none).
RECURSIVE LineEnd(_, _)
LineEnd(s, i) == IF i <= Len(s) /\ s[i] # "\n" THEN LineEnd(s, i + 1) ELSE i

\* COMMENT  //[^\n]*
MatchComment(s, i) ==
    IF i + 1 <= Len(s) /\ s[i] = "/" /\ s[i + 1] = "/" THEN LineEnd(s, i + 2) ELSE 0

\* MASTER at index i: the alternatives of TOKEN_SPEC in their order, the first
\* that matches wins.  [k |-> "", end |-> 0] when none matches at i.
MasterAt(s, i) ==
    IF MatchNumber(s, i) # 0 THEN [k |-> "NUMBER", end |-> MatchNumber(s, i)]
    ELSE IF MatchString(s, i) # 0 THEN [k |-> "STRING", end |-> MatchString(s, i)]
    ELSE IF MatchId(s, i) # 0 THEN [k |-> "ID", end |-> MatchId(s, i)]
    ELSE IF MatchOp(s, i) # 0 THEN [k |-> "OP", end |-> MatchOp(s, i)]
    ELSE IF MatchWs(s, i) # 0 THEN [k |-> "WS", end |-> MatchWs(s, i)]
    ELSE IF MatchComment(s, i) # 0 THEN [k |-> "COMMENT", end |-> MatchComment(s, i)]
    ELSE [k |-> "", end |-> 0]

\* Token(typ, val, pos); pos is the 0-based offset m.start().
Token(typ, val, pos) == [type |-> typ, val |-> val, pos |-> pos]

\* The loop of lex over MASTER.finditer(src), from index i with `out` built so
\* far: finditer moves on by one character where MASTER does not match.
RECURSIVE LexFrom(_, _, _)
LexFrom(s, i, out) ==
    IF i > Len(s) THEN out
    ELSE LET m == MasterAt(s, i)
             v == SubSeq(s, i, m.end - 1)
         IN  IF m.end = 0 THEN LexFrom(s, i + 1, out)
             ELSE IF m.k \in {"WS", "COMMENT"} THEN LexFrom(s, m.end, out)
             ELSE IF m.k = "ID" /\ v \in DOMAIN KEYWORDS
                  THEN LexFrom(s, m.end, Append(out, Token(KEYWORDS[v], v, i - 1)))
             ELSE LexFrom(s, m.end, Append(out, Token(m.k, v, i - 1)))

\* lex(src): the tokens, then Token('EOF', '', len(src)).
lex(s) == Append(LexFrom(s, 1, <<>>), Token("EOF", <<>>, Len(s)))

\* The 0-based offsets finditer passes over without a match, from index i.
RECURSIVE SkippedFrom(_, _)
SkippedFrom(s, i) ==
    IF i > Len(s) THEN {}
    ELSE LET m == MasterAt(s, i)
         IN  IF m.end = 0 THEN {i - 1} \cup SkippedFrom(s, i + 1)
             ELSE SkippedFrom(s, m.end)

\* lex has no raise statement: it raises nothing for any input.
NoLexError == [raised |-> FALSE, pos |-> 0]

(***************************************************************************)
(* Lexer alone: a bounded source string, then lex                          *)
(***************************************************************************)
LexChars == {"1", "i", "n", ".", "\"", "&", "|", "@", "#", " ", "=", "/"}

\* All sequences over S of length at most n.
SeqsUpTo(S, n) == UNION {[1..k -> S] : k \in 0..n}

NoAst == [kind |-> "none"]

\* The variables of run_source while no program runs.
ReplIdle ==
    /\ input = <<>>
    /\ rpos = 0
    /\ byRepl = <<>>
    /\ buf = <<>>
    /\ rstate = "idle"
    /\ runs = <<>>
    /\ reports = 0

RunIdle ==
    /\ prog = <<>>
    /\ phase = "idle"
    /\ pc = 0
    /\ globals = <<>>
    /\ functions = <<>>
    /\ stdout = <<>>
    /\ result = [t |-> "null", v |-> 0]
    /\ error = [type |-> "none", name |-> <<>>, val |-> [t |-> "null", v |-> 0]]

InitLex ==
    /\ src \in SeqsUpTo(LexChars, MaxLexLen)
    /\ toks = <<>>
    /\ lexError = NoLexError
    /\ ast = NoAst
    /\ fpc = "src"
    /\ RunIdle
    /\ ReplIdle

\* toks = lex(src)
Lex ==
    /\ fpc = "src"
    /\ toks' = lex(src)
    /\ lexError' = NoLexError
    /\ fpc' = "lexed"
    /\ UNCHANGED <<src, ast>>
    /\ UNCHANGED <<runVars, replVars>>

NextLex == Lex

SpecLex == InitLex /\ [][NextLex]_vars

(***************************************************************************)
(* Parser helpers: class Parser, node                                      *)
(***************************************************************************)
\* A Parser is [toks, i]; i is the 1-based index of self.toks[self.i].
Parser(tokens) == [toks |-> tokens, i |-> 1]

\* p.peek()
peek(p) == p.toks[p.i]

\* The outcome of a parsing step: err is "none" or the exception raised; node
\* is the node returned; p is the parser afterwards.
Parsed(n, p) == [err |-> "none", node |-> n, p |-> p]

Raised(e, p) == [err |-> e, node |-> NoAst, p |-> p]

Advance(p) == [p EXCEPT !.i = p.i + 1]

\* p.eat(typ, val), "" standing for an argument left out (None): err is
\* "ParseError" on a mismatch, and the token eaten is peek of the old parser.
eat(p, typ, val) ==
    IF typ # "" /\ peek(p).type # typ THEN Raised("ParseError", p)
    ELSE IF val # <<>> /\ peek(p).val # val THEN Raised("ParseError", p)
    ELSE Parsed(NoAst, Advance(p))

\* p.match(typ, val): whether it matched; the parser moves on by one if so.
match(p, typ, val) == peek(p).type = typ /\ peek(p).val = val

(***************************************************************************)
(* Expression parsing: PRECEDENCE, UNARY_OPS, parse_expression             *)
(***************************************************************************)
PRECEDENCE ==
    (<<"|", "|">> :> 1) @@ (<<"&", "&">> :> 2) @@ (<<"=", "=">> :> 3) @@
    (<<"!", "=">> :> 3) @@ (<<"<">> :> 4) @@ (<<">">> :> 4) @@
    (<<"<", "=">> :> 4) @@ (<<">", "=">> :> 4) @@ (<<"+">> :> 5) @@
    (<<"-">> :> 5) @@ (<<"*">> :> 6) @@ (<<"/">> :> 6) @@ (<<"%">> :> 6)

UNARY_OPS == {<<"-">>, <<"!">>, <<"+">>}

DigitVal ==
    ("0" :> 0) @@ ("1" :> 1) @@ ("2" :> 2) @@ ("3" :> 3) @@ ("4" :> 4) @@
    ("5" :> 5) @@ ("6" :> 6) @@ ("7" :> 7) @@ ("8" :> 8) @@ ("9" :> 9)

\* int(val) of a string of decimal digits.
RECURSIVE IntOf(_)
IntOf(val) ==
    IF val = <<>> THEN 0
    ELSE 10 * IntOf(SubSeq(val, 1, Len(val) - 1)) + DigitVal[val[Len(val)]]

\* The index of "." in a NUMBER lexeme, 0 when it has none ('.' in t.val).
DotIndex(val) ==
    IF \E k \in 1..Len(val) : val[k] = "."
    THEN CHOOSE k \in 1..Len(val) : val[k] = "."
    ELSE 0

\* float(val) as the pair (digits without the point, number of decimals),
\* trailing zero decimals dropped: the decimal value the lexeme denotes.
RECURSIVE FloatNorm(_, _)
FloatNorm(m, e) == IF e > 0 /\ m % 10 = 0 THEN FloatNorm(m \div 10, e - 1) ELSE [t |-> "float", v |-> m, e |-> e]

FloatOf(val) ==
    LET d == DotIndex(val)
    IN  FloatNorm(IntOf(SubSeq(val, 1, d - 1) \o SubSeq(val, d + 1, Len(val))), Len(val) - d)

\* The contents of a STRING lexeme with the escapes n t r \ " decoded; any other
\* escaped character is kept with its backslash.
RECURSIVE Unescape(_)
Unescape(cs) ==
    IF cs = <<>> THEN <<>>
    ELSE IF cs[1] = "\\" /\ Len(cs) >= 2
         THEN LET c == cs[2]
                  rest == Unescape(SubSeq(cs, 3, Len(cs)))
              IN  IF c = "n" THEN <<"\n">> \o rest
                  ELSE IF c = "t" THEN <<"\t">> \o rest
                  ELSE IF c = "r" THEN <<"\r">> \o rest
                  ELSE IF c \in {"\\", "\""} THEN <<c>> \o rest
                  ELSE <<"\\", c>> \o rest
    ELSE <<cs[1]>> \o Unescape(SubSeq(cs, 2, Len(cs)))

\* node(kind, **kw) for each kind of expression node.
NumberNode(val) ==
    [kind |-> "number",
     value |-> IF DotIndex(val) # 0 THEN FloatOf(val) ELSE [t |-> "int", v |-> IntOf(val)]]

StringNode(val) ==
    [kind |-> "string", value |-> [t |-> "str", s |-> Unescape(SubSeq(val, 2, Len(val) - 1))]]

BoolNode(b) == [kind |-> "bool", value |-> [t |-> "bool", v |-> IF b THEN 1 ELSE 0]]

VarNode(parts) == [kind |-> "var", name |-> parts]

CallNode(parts, args) == [kind |-> "call", callee |-> parts, args |-> args]

IndexNode(parts, idx) == [kind |-> "index", target |-> parts, index |-> idx]

UnaryNode(op, expr) == [kind |-> "unary", op |-> op, expr |-> expr]

BinNode(op, left, right) == [kind |-> "bin", op |-> op, left |-> left, right |-> right]

\* The calls  parse_expression()  inside parse_primary (lines 81, 86, 90, 92):
\* parse_expression is defined with one required parameter p, so a call without
\* an argument raises TypeError before any token is read.
parse_expression_noarg(p) == Raised("TypeError", p)

\* while p.match('OP','.'): parts.append(p.eat('ID').val)
RECURSIVE DottedParts(_, _)
DottedParts(p, parts) ==
    IF match(p, "OP", <<".">>)
    THEN LET e == eat(Advance(p), "ID", <<>>)
         IN  IF e.err # "none" THEN [err |-> e.err, parts |-> parts, p |-> e.p]
             ELSE DottedParts(e.p, Append(parts, peek(Advance(p)).val))
    ELSE [err |-> "none", parts |-> parts, p |-> p]

\* The argument loop of a call, after '(' was matched and ')' was not:
\*   while True: args.append(parse_expression()); if p.match(')'): break; p.eat(',')
RECURSIVE CallArgs(_, _)
CallArgs(p, args) ==
    LET a == parse_expression_noarg(p)
    IN  IF a.err # "none" THEN [err |-> a.err, args |-> args, p |-> a.p]
        ELSE IF match(a.p, "OP", <<")">>)
             THEN [err |-> "none", args |-> Append(args, a.node), p |-> Advance(a.p)]
        ELSE LET c == eat(a.p, "OP", <<",">>)
             IN  IF c.err # "none" THEN [err |-> c.err, args |-> args, p |-> c.p]
                 ELSE CallArgs(c.p, Append(args, a.node))

\* parse_primary
parse_primary(p) ==
    LET t == peek(p)
    IN  IF t.type = "NUMBER" THEN Parsed(NumberNode(t.val), Advance(p))
        ELSE IF t.type = "STRING" THEN Parsed(StringNode(t.val), Advance(p))
        ELSE IF t.type \in {"TRUE", "FALSE"} THEN Parsed(BoolNode(t.type = "TRUE"), Advance(p))
        ELSE IF t.type = "ID" \/ t.type \in {"CONSOLE", "LIST"}
        THEN LET d == DottedParts(Advance(p), <<t.val>>)
             IN  IF d.err # "none" THEN Raised(d.err, d.p)
                 ELSE IF match(d.p, "OP", <<"(">>)
                 THEN IF match(Advance(d.p), "OP", <<")">>)
                      THEN Parsed(CallNode(d.parts, <<>>), Advance(Advance(d.p)))
                      ELSE LET a == CallArgs(Advance(d.p), <<>>)
                           IN  IF a.err # "none" THEN Raised(a.err, a.p)
                               ELSE Parsed(CallNode(d.parts, a.args), a.p)
                 ELSE IF match(d.p, "OP", <<"[">>)
                 THEN LET x == parse_expression_noarg(Advance(d.p))
                      IN  IF x.err # "none" THEN Raised(x.err, x.p)
                          ELSE LET c == eat(x.p, "OP", <<"]">>)
                               IN  IF c.err # "none" THEN Raised(c.err, c.p)
                                   ELSE Parsed(IndexNode(d.parts, x.node), c.p)
                 ELSE Parsed(VarNode(d.parts), d.p)
        ELSE IF match(p, "OP", <<"(">>)
        THEN LET x == parse_expression_noarg(Advance(p))
             IN  IF x.err # "none" THEN Raised(x.err, x.p)
                 ELSE LET c == eat(x.p, "OP", <<")">>)
                      IN  IF c.err # "none" THEN Raised(c.err, c.p) ELSE Parsed(x.node, c.p)
        ELSE IF t.type = "OP" /\ t.val \in UNARY_OPS
        THEN LET x == parse_expression_noarg(Advance(p))
             IN  IF x.err # "none" THEN Raised(x.err, x.p)
                 ELSE Parsed(UnaryNode(t.val, x.node), x.p)
        ELSE Raised("ParseError", p)

\* parse_unary
RECURSIVE parse_unary(_)
parse_unary(p) ==
    LET t == peek(p)
    IN  IF t.type = "OP" /\ t.val \in UNARY_OPS
        THEN LET x == parse_unary(Advance(p))
             IN  IF x.err # "none" THEN x ELSE Parsed(UnaryNode(t.val, x.node), x.p)
        ELSE parse_primary(p)

IsBinOp(t) == t.type = "OP" /\ t.val \in DOMAIN PRECEDENCE

\* parse_binop(minp, left), and its inner loop
\*   while t2 is a binary operator and PRECEDENCE[t2.val] > prec:
\*       right = parse_binop(PRECEDENCE[t2.val], right)
RECURSIVE parse_binop(_, _, _)
RECURSIVE BinopRight(_, _, _)
parse_binop(p, minp, left) ==
    LET t == peek(p)
    IN  IF ~IsBinOp(t) THEN Parsed(left, p)
        ELSE IF PRECEDENCE[t.val] < minp THEN Parsed(left, p)
        ELSE LET r == parse_unary(Advance(p))
             IN  IF r.err # "none" THEN r
                 ELSE LET rr == BinopRight(r.p, PRECEDENCE[t.val], r.node)
                      IN  IF rr.err # "none" THEN rr
                          ELSE parse_binop(rr.p, minp, BinNode(t.val, left, rr.node))

BinopRight(p, prec, right) ==
    LET t2 == peek(p)
    IN  IF IsBinOp(t2) /\ PRECEDENCE[t2.val] > prec
        THEN LET r == parse_binop(p, PRECEDENCE[t2.val], right)
             IN  IF r.err # "none" THEN r ELSE BinopRight(r.p, prec, r.node)
        ELSE Parsed(right, p)

\* parse_expression(p)
parse_expression(p) ==
    LET left == parse_unary(p)
    IN  IF left.err # "none" THEN left ELSE parse_binop(left.p, 1, left.node)

(***************************************************************************)
(* Lexer and expression parser: a bounded source string, lex, then         *)
(* parse_expression(Parser(toks))                                          *)
(***************************************************************************)
ParseChars == {"f", "1", "(", ")", "[", "]", ",", ".", "+"}

InitParse ==
    /\ src \in SeqsUpTo(ParseChars, MaxParseLen)
    /\ toks = <<>>
    /\ lexError = NoLexError
    /\ ast = NoAst
    /\ fpc = "src"
    /\ RunIdle
    /\ ReplIdle

\* ast = parse_expression(Parser(toks)): the node, or the exception raised, and
\* the parser's index afterwards.
ParseExpression ==
    /\ fpc = "lexed"
    /\ LET r == parse_expression(Parser(toks))
       IN  ast' = [kind |-> "result", err |-> r.err, node |-> r.node, i |-> r.p.i]
    /\ fpc' = "parsed"
    /\ UNCHANGED <<src, toks, lexError>>
    /\ UNCHANGED <<runVars, replVars>>

NextParse == Lex \/ ParseExpression

SpecParse == InitParse /\ [][NextParse]_vars

(***************************************************************************)
(* The token shapes of claim C9, read off the token list itself            *)
(***************************************************************************)
\* The index just past the dotted identifier chain  ID ('.' ID)*  that starts
\* at index j of ts (ts[j] is an ID).
RECURSIVE ChainEnd(_, _)
ChainEnd(ts, j) ==
    IF ts[j + 1].type = "OP" /\ ts[j + 1].val = <<".">> /\ ts[j + 2].type = "ID"
    THEN ChainEnd(ts, j + 2)
    ELSE j + 1

\* The lexemes of the identifiers of the chain ts[j .. e-1].
RECURSIVE ChainNames(_, _, _)
ChainNames(ts, j, e) ==
    IF j >= e THEN <<>> ELSE <<ts[j].val>> \o ChainNames(ts, j + 2, e)

IsOpTok(t, c) == t.type = "OP" /\ t.val = <<c>>

\* An argument made of one token, and the node it denotes.
IsAtom(t) == t.type \in {"NUMBER", "ID"}

AtomNode(t) == IF t.type = "NUMBER" THEN NumberNode(t.val) ELSE VarNode(<<t.val>>)

\* ts[j ..] is  atom (',' atom)* ')' EOF : the atoms' nodes; <<NoAst>> otherwise.
RECURSIVE AtomArgs(_, _)
AtomArgs(ts, j) ==
    IF ~IsAtom(ts[j]) THEN <<NoAst>>
    ELSE IF IsOpTok(ts[j + 1], ")")
         THEN IF ts[j + 2].type = "EOF" THEN <<AtomNode(ts[j])>> ELSE <<NoAst>>
    ELSE IF IsOpTok(ts[j + 1], ",")
         THEN LET rest == AtomArgs(ts, j + 2)
              IN  IF rest = <<NoAst>> THEN rest ELSE <<AtomNode(ts[j])>> \o rest
    ELSE <<NoAst>>

\* The node claim C9 expects for the token list ts, NoAst when ts is none of
\* its shapes:  chain '(' atoms ')',  chain '[' atom ']',  '(' atom ')'.
ExpectedPrimary(ts) ==
    IF ts[1].type = "ID"
    THEN LET e == ChainEnd(ts, 1)
             names == ChainNames(ts, 1, e)
         IN  IF IsOpTok(ts[e], "(")
             THEN IF IsOpTok(ts[e + 1], ")")
                  THEN IF ts[e + 2].type = "EOF" THEN CallNode(names, <<>>) ELSE NoAst
                  ELSE IF AtomArgs(ts, e + 1) # <<NoAst>>
                       THEN CallNode(names, AtomArgs(ts, e + 1))
                       ELSE NoAst
             ELSE IF IsOpTok(ts[e], "[") /\ IsAtom(ts[e + 1]) /\ IsOpTok(ts[e + 2], "]")
                     /\ ts[e + 3].type = "EOF"
                  THEN IndexNode(names, AtomNode(ts[e + 1]))
             ELSE NoAst
    ELSE IF IsOpTok(ts[1], "(") /\ IsAtom(ts[2]) /\ IsOpTok(ts[3], ")") /\ ts[4].type = "EOF"
         THEN AtomNode(ts[2])
    ELSE NoAst

\* C9: for a dotted identifier chain followed by '(' n >= 0 comma-separated
\* expressions ')', parse_expression returns the Call node with the dot-joined
\* callee and the n arguments in source order; for a chain followed by
\* '[' expression ']' the Index node; for '(' expression ')' the inner node.
C9_CallIndexParenPrimaries ==
    (fpc = "parsed" /\ ExpectedPrimary(toks) # NoAst) =>
        /\ ast.err = "none"
        /\ ast.node = ExpectedPrimary(toks)

\* The part of C9 the code keeps: a chain followed by '(' ')' gives the Call
\* node with no arguments.
C9_ZeroArgCallReached ==
    /\ fpc = "parsed"
    /\ ExpectedPrimary(toks) # NoAst
    /\ ast.err = "none"
    /\ ast.node.kind = "call"
    /\ Len(ast.node.callee) = 2

(***************************************************************************)
(* Statement nodes (parse_block .. parse_program build them with node)     *)
(***************************************************************************)
\* An identifier lexeme is the sequence of its characters; the key of a simple
\* name in an environment or in the function table is the one-part dotted name.
Key(id) == <<id>>

BlockNode(items) == [kind |-> "block", body |-> items]

\* init is NoAst for  init=None
VarDeclNode(typ, id, init) == [kind |-> "vardecl", type |-> typ, name |-> id, init |-> init]

AssignNode(target, value) == [kind |-> "assign", target |-> target, value |-> value]

ExprStmtNode(e) == [kind |-> "expr", expr |-> e]

\* otherwise is NoAst for  otherwise=None
IfNode(cond, then, otherwise) ==
    [kind |-> "if", cond |-> cond, then |-> then, otherwise |-> otherwise]

WhileNode(cond, body) == [kind |-> "while", cond |-> cond, body |-> body]

\* init, cond and post are NoAst for None
ForNode(init, cond, post, body) ==
    [kind |-> "for", init |-> init, cond |-> cond, post |-> post, body |-> body]

ForeachNode(id, seq, body) == [kind |-> "foreach", name |-> id, seq |-> seq, body |-> body]

\* value is NoAst for  value=None
ReturnNode(value) == [kind |-> "return", value |-> value]

FuncNode(rettype, id, params, body) ==
    [kind |-> "func", name |-> id, params |-> params, body |-> body, rettype |-> rettype]

(***************************************************************************)
(* Runtime values and exceptions                                           *)
(***************************************************************************)
Null == [t |-> "null", v |-> 0]                 \* None

IntVal(n) == [t |-> "int", v |-> n]

BoolVal(b) == [t |-> "bool", v |-> IF b THEN 1 ELSE 0]

ListVal(items) == [t |-> "list", items |-> items]   \* a CSList / list

StrVal(cs) == [t |-> "str", s |-> cs]

ConsoleObject == [t |-> "namespace", name |-> "Console"]

\* A callable of the standard library: "List" (List_ctor), "WriteLine", "ReadLine".
Builtin(f) == [t |-> "builtin", name |-> f]

ID_Console == <<"C", "o", "n", "s", "o", "l", "e">>

ID_List == <<"L", "i", "s", "t">>

ID_WriteLine == <<"W", "r", "i", "t", "e", "L", "i", "n", "e">>

ID_ReadLine == <<"R", "e", "a", "d", "L", "i", "n", "e">>

ID_Main == <<"M", "a", "i", "n">>

\* An exception in flight: its type, the name a NameError carries, and the value
\* a ReturnSignal carries.  Type "none": no exception.  Type "Hang": the
\* evaluation does not terminate (a loop whose state no longer changes).
NoSig == [type |-> "none", name |-> <<>>, val |-> Null]

Sig(type, name, val) == [type |-> type, name |-> name, val |-> val]

\* class ReturnSignal
ReturnSignal(value) == Sig("ReturnSignal", <<>>, value)

EmptyDict == [n \in {} |-> Null]

Put(d, n, v) == (n :> v) @@ d

(***************************************************************************)
(* Runtime: the interpreter state                                          *)
(*   g    self.globals            fns  self.functions                      *)
(*   l    the dict `env` refers to when it is not self.globals             *)
(*   top  TRUE when `env` is self.globals itself (run_source passes        *)
(*        env = rt.globals, so a write to env is a write to the globals)   *)
(*   out  the lines written by print, each the tuple of its arguments      *)
(***************************************************************************)
\* Runtime.__init__
NewRuntime == [g |-> EmptyDict, l |-> EmptyDict, top |-> TRUE, fns |-> EmptyDict, out |-> <<>>]

EnvHas(m, n) == IF m.top THEN n \in DOMAIN m.g ELSE n \in DOMAIN m.l

EnvGet(m, n) == IF m.top THEN m.g[n] ELSE m.l[n]

EnvPut(m, n, v) == IF m.top THEN [m EXCEPT !.g = Put(@, n, v)] ELSE [m EXCEPT !.l = Put(@, n, v)]

\* The outcome of evaluating or executing: the state afterwards, the value
\* returned, and the exception raised, if any.
Done(m, v) == [m |-> m, val |-> v, sig |-> NoSig]

Throw(m, type, name) == [m |-> m, val |-> Null, sig |-> Sig(type, name, Null)]

\* load_stdlib: Console has the members WriteLine and ReadLine.
ConsoleMember(part) ==
    IF part = ID_WriteLine THEN Builtin("WriteLine")
    ELSE IF part = ID_ReadLine THEN Builtin("ReadLine")
    ELSE Null

\* fn(*args) for a callable of the standard library.  print(*args) writes one
\* line; input() is at end-of-input, so ReadLine returns "".
CallBuiltin(m, fn, args) ==
    IF fn.name = "WriteLine" THEN Done([m EXCEPT !.out = Append(@, args)], Null)
    ELSE IF args # <<>> THEN Throw(m, "TypeError", <<>>)
    ELSE IF fn.name = "ReadLine" THEN Done(m, StrVal(<<>>))
    ELSE Done(m, ListVal(<<>>))

\* bool(v)
Truthy(v) ==
    CASE v.t \in {"int", "bool"} -> v.v # 0
      [] v.t = "null" -> FALSE
      [] v.t = "list" -> v.items # <<>>
      [] v.t = "str" -> v.s # <<>>
      [] v.t \in {"builtin", "namespace"} -> TRUE

IsNum(v) == v.t \in {"int", "bool"}

\* a % b of Python integers, b # 0: the result has the sign of b.
PyMod(a, b) == IF b > 0 THEN a % b ELSE -((-a) % (-b))

\* a == b
PyEq(a, b) == IF IsNum(a) /\ IsNum(b) THEN a.v = b.v ELSE a = b

\* The unary operators of eval_expr on a value.
UnaryOp(m, op, v) ==
    IF op = <<"!">> THEN Done(m, BoolVal(~Truthy(v)))
    ELSE IF ~IsNum(v) THEN Throw(m, "TypeError", <<>>)
    ELSE IF op = <<"-">> THEN Done(m, IntVal(-v.v))
    ELSE Done(m, IntVal(v.v))

\* ops[op](l, r) of eval_expr for integers, booleans, None, empty lists and
\* the standard library's objects ('/' and strings are outside the bounded
\* programs).
BinaryOp(m, op, a, b) ==
    IF op = <<"&", "&">> THEN Done(m, BoolVal(Truthy(a) /\ Truthy(b)))
    ELSE IF op = <<"|", "|">> THEN Done(m, BoolVal(Truthy(a) \/ Truthy(b)))
    ELSE IF op = <<"=", "=">> THEN Done(m, BoolVal(PyEq(a, b)))
    ELSE IF op = <<"!", "=">> THEN Done(m, BoolVal(~PyEq(a, b)))
    ELSE IF IsNum(a) /\ IsNum(b)
    THEN CASE op = <<"+">> -> Done(m, IntVal(a.v + b.v))
           [] op = <<"-">> -> Done(m, IntVal(a.v - b.v))
           [] op = <<"*">> -> Done(m, IntVal(a.v * b.v))
           [] op = <<"%">> -> IF b.v = 0 THEN Throw(m, "ZeroDivisionError", <<>>)
                              ELSE Done(m, IntVal(PyMod(a.v, b.v)))
           [] op = <<"<">> -> Done(m, BoolVal(a.v < b.v))
           [] op = <<">">> -> Done(m, BoolVal(a.v > b.v))
           [] op = <<"<", "=">> -> Done(m, BoolVal(a.v <= b.v))
           [] op = <<">", "=">> -> Done(m, BoolVal(a.v >= b.v))
    ELSE IF a = ListVal(<<>>) /\ b = ListVal(<<>>) /\ op # <<"/">>
    THEN CASE op = <<"+">> -> Done(m, ListVal(<<>>))
           [] op \in {<<"<">>, <<">">>} -> Done(m, BoolVal(FALSE))
           [] op \in {<<"<", "=">>, <<">", "=">>} -> Done(m, BoolVal(TRUE))
           [] OTHER -> Throw(m, "TypeError", <<>>)
    ELSE IF op = <<"*">> /\ ((a = ListVal(<<>>) /\ IsNum(b)) \/ (IsNum(a) /\ b = ListVal(<<>>)))
    THEN Done(m, ListVal(<<>>))
    ELSE CASE {a.t, b.t} \cap {"str", "float"} = {} -> Throw(m, "TypeError", <<>>)

(***************************************************************************)
(* Runtime.eval_expr, exec_block, exec_stmt                                *)
(*                                                                         *)
(* m is the interpreter state, d the number of user-function calls the     *)
(* evaluation is nested in.  Index nodes are not modelled: no program      *)
(* reaches the evaluator with one, since parse_primary raises before it    *)
(* builds it (line 86).                                                    *)
(***************************************************************************)
RECURSIVE Interp(_, _)

\* The methods of Runtime call each other; every such call goes through
\* Interp, which holds their bodies.
eval_expr(m, e, d) == Interp("eval_expr", <<m, e, d>>)

EvalArgs(m, args, d, vals) == Interp("EvalArgs", <<m, args, d, vals>>)

CallUser(m, f, args, d) == Interp("CallUser", <<m, f, args, d>>)

EvalCall(m, e, d) == Interp("EvalCall", <<m, e, d>>)

EvalBin(m, e, d) == Interp("EvalBin", <<m, e, d>>)

ExecFrom(m, body, i, d) == Interp("ExecFrom", <<m, body, i, d>>)

ExecAssign(m, s, d) == Interp("ExecAssign", <<m, s, d>>)

WhileLoop(m, s, d) == Interp("WhileLoop", <<m, s, d>>)

ForLoop(m, s, d) == Interp("ForLoop", <<m, s, d>>)

ForeachLoop(m, s, items, d) == Interp("ForeachLoop", <<m, s, items, d>>)

exec_stmt(m, s, d) == Interp("exec_stmt", <<m, s, d>>)

\* The 'var' branch of eval_expr.
EvalVar(m, name) ==
    IF EnvHas(m, name) THEN Done(m, EnvGet(m, name))
    ELSE IF name \in DOMAIN m.g THEN Done(m, m.g[name])
    ELSE IF Len(name) > 1
    THEN IF name[1] = ID_Console
         THEN IF Len(name) = 2 /\ ConsoleMember(name[2]) # Null
              THEN Done(m, ConsoleMember(name[2]))
              ELSE Throw(m, "AttributeError", <<>>)
         ELSE IF name[1] = ID_List THEN Throw(m, "AttributeError", <<>>)
         ELSE Throw(m, "NameError", name)
    ELSE IF name = <<ID_Console>> THEN Done(m, ConsoleObject)
    ELSE IF name = <<ID_List>> THEN Done(m, Builtin("List"))
    ELSE Throw(m, "NameError", name)

\* for name, val in zip(f['params'], args): new_env[name] = val
RECURSIVE BindParams(_, _, _)
BindParams(env, params, args) ==
    IF params = <<>> \/ args = <<>> THEN env
    ELSE BindParams(Put(env, Key(Head(params)), Head(args)), Tail(params), Tail(args))

\* new_env = dict(self.globals), then the parameters bound.
NewEnv(m, f, args) == BindParams(m.g, f.params, args)

\* new_env = self.globals  in place of the copy: the body of the function
\* runs in the global environment itself.
CalleeState_SharedEnv(m, f, args) == [m EXCEPT !.g = NewEnv(m, f, args), !.top = TRUE]

\* The state the body of f runs in: env is new_env, globals are untouched.
CalleeState(m, f, args) == [m EXCEPT !.l = NewEnv(m, f, args), !.top = FALSE]

\* The state the caller goes on in after the call that ended in state n: its
\* own env again.
CallerState(m, n) == [n EXCEPT !.l = m.l, !.top = m.top]

\* The state a loop's next round depends on.
LoopState(m) == <<m.g, m.l, m.fns>>

\* seq = env.get(s['seq'], self.globals.get(s['seq']))
ForeachSeq(m, s) ==
    IF EnvHas(m, Key(s.seq)) THEN EnvGet(m, Key(s.seq))
    ELSE IF Key(s.seq) \in DOMAIN m.g THEN m.g[Key(s.seq)]
    ELSE Null

Interp(method, argv) ==
    CASE method = "eval_expr" ->
            \* eval_expr(env, e)
            LET m == argv[1]
                e == argv[2]
                d == argv[3]
            IN  (CASE e.kind \in {"number", "string", "bool"} -> Done(m, e.value)
                   [] e.kind = "var" -> EvalVar(m, e.name)
                   [] e.kind = "call" -> EvalCall(m, e, d)
                   [] e.kind = "unary" ->
                         LET v == eval_expr(m, e.expr, d)
                         IN  IF v.sig # NoSig THEN v ELSE UnaryOp(v.m, e.op, v.val)
                   [] e.kind = "bin" -> EvalBin(m, e, d))
      [] method = "EvalArgs" ->
            \* [self.eval_expr(env, a) for a in args], with `vals` so far; the
            \* values are in val as a list.
            LET m == argv[1]
                args == argv[2]
                d == argv[3]
                vals == argv[4]
            IN  IF Len(vals) = Len(args) THEN Done(m, ListVal(vals))
                ELSE LET a == eval_expr(m, args[Len(vals) + 1], d)
                     IN  IF a.sig # NoSig THEN a
                         ELSE EvalArgs(a.m, args, d, Append(vals, a.val))
      [] method = "CallUser" ->
            \* The call of the user function f (lines 283-291) with the
            \* arguments evaluated: the body runs in new_env; a ReturnSignal
            \* ends the call with its value; the caller's env is the caller's
            \* again afterwards.
            LET m == argv[1]
                f == argv[2]
                args == argv[3]
                d == argv[4]
            IN  IF d >= MaxDepth THEN Throw(m, "RecursionError", <<>>)
                ELSE LET r == ExecFrom(CalleeState(m, f, args), f.body.body, 1, d + 1)
                         back == CallerState(m, r.m)
                     IN  IF r.sig.type = "ReturnSignal" THEN Done(back, r.sig.val)
                         ELSE IF r.sig # NoSig THEN [m |-> back, val |-> Null, sig |-> r.sig]
                         ELSE Done(back, Null)
      [] method = "EvalCall" ->
            \* The 'call' branch of eval_expr.
            LET m == argv[1]
                e == argv[2]
                d == argv[3]
                callee == e.callee
            IN  IF Len(callee) > 1 /\ callee[1] = ID_Console
                THEN IF ConsoleMember(callee[2]) = Null THEN Throw(m, "AttributeError", <<>>)
                     ELSE LET a == EvalArgs(m, e.args, d, <<>>)
                          IN  IF a.sig # NoSig THEN a
                              ELSE CallBuiltin(a.m, ConsoleMember(callee[2]), a.val.items)
                ELSE IF callee = <<ID_List>> THEN CallBuiltin(m, Builtin("List"), <<>>)
                ELSE IF callee \in DOMAIN m.fns
                THEN LET a == EvalArgs(m, e.args, d, <<>>)
                     IN  IF a.sig # NoSig THEN a
                         ELSE CallUser(a.m, m.fns[callee], a.val.items, d)
                ELSE IF EnvHas(m, callee) /\ EnvGet(m, callee).t = "builtin"
                THEN LET a == EvalArgs(m, e.args, d, <<>>)
                     IN  IF a.sig # NoSig THEN a
                         ELSE CallBuiltin(a.m, EnvGet(m, callee), a.val.items)
                ELSE Throw(m, "NameError", callee)
      [] method = "EvalBin" ->
            \* The 'bin' branch of eval_expr: both operands are evaluated, left
            \* first, and then the operator is applied.
            LET m == argv[1]
                e == argv[2]
                d == argv[3]
                l == eval_expr(m, e.left, d)
            IN  IF l.sig # NoSig THEN l
                ELSE LET r == eval_expr(l.m, e.right, d)
                     IN  IF r.sig # NoSig THEN r ELSE BinaryOp(r.m, e.op, l.val, r.val)
      [] method = "ExecFrom" ->
            \* exec_block(env, block), from the i-th statement of its body.
            LET m == argv[1]
                body == argv[2]
                i == argv[3]
                d == argv[4]
            IN  IF i > Len(body) THEN Done(m, Null)
                ELSE LET r == exec_stmt(m, body[i], d)
                     IN  IF r.sig # NoSig THEN r ELSE ExecFrom(r.m, body, i + 1, d)
      [] method = "ExecAssign" ->
            \* The 'assign' branch of exec_stmt for a simple or dotted name: the
            \* binding to write is chosen before the value is evaluated.
            LET m == argv[1]
                s == argv[2]
                d == argv[3]
                name == s.target.name
                v == eval_expr(m, s.value, d)
            IN  IF v.sig # NoSig THEN v
                ELSE IF EnvHas(m, name) THEN Done(EnvPut(v.m, name, v.val), Null)
                ELSE IF name \in DOMAIN m.g
                THEN Done([v.m EXCEPT !.g = Put(@, name, v.val)], Null)
                ELSE Done(EnvPut(v.m, name, v.val), Null)
      [] method = "WhileLoop" ->
            \* The 'while' branch of exec_stmt.  A round that leaves the state
            \* as it found it is followed by the same round for ever.
            LET m == argv[1]
                s == argv[2]
                d == argv[3]
                c == eval_expr(m, s.cond, d)
            IN  IF c.sig # NoSig THEN c
                ELSE IF ~Truthy(c.val) THEN Done(c.m, Null)
                ELSE LET b == exec_stmt(c.m, s.body, d)
                     IN  IF b.sig # NoSig THEN b
                         ELSE IF LoopState(b.m) = LoopState(m) THEN Throw(b.m, "Hang", <<>>)
                         ELSE WhileLoop(b.m, s, d)
      [] method = "ForLoop" ->
            \* The loop of the 'for' branch of exec_stmt, after init.
            LET m == argv[1]
                s == argv[2]
                d == argv[3]
                c == IF s.cond = NoAst THEN Done(m, BoolVal(TRUE)) ELSE eval_expr(m, s.cond, d)
            IN  IF c.sig # NoSig THEN c
                ELSE IF ~Truthy(c.val) THEN Done(c.m, Null)
                ELSE LET b == exec_stmt(c.m, s.body, d)
                         p == IF b.sig # NoSig \/ s.post = NoAst THEN b
                              ELSE eval_expr(b.m, s.post, d)
                     IN  IF p.sig # NoSig THEN p
                         ELSE IF LoopState(p.m) = LoopState(m) THEN Throw(p.m, "Hang", <<>>)
                         ELSE ForLoop(p.m, s, d)
      [] method = "ForeachLoop" ->
            \* for val in seq: env[name] = val; exec_stmt(body), over the items left.
            LET m == argv[1]
                s == argv[2]
                items == argv[3]
                d == argv[4]
            IN  IF items = <<>> THEN Done(m, Null)
                ELSE LET b == exec_stmt(EnvPut(m, Key(s.name), Head(items)), s.body, d)
                     IN  IF b.sig # NoSig THEN b ELSE ForeachLoop(b.m, s, Tail(items), d)
      [] method = "exec_stmt" ->
            \* exec_stmt(env, s)
            LET m == argv[1]
                s == argv[2]
                d == argv[3]
            IN  (CASE s.kind = "block" -> ExecFrom(m, s.body, 1, d)
                   [] s.kind = "vardecl" ->
                         LET v == IF s.init = NoAst THEN Done(m, Null)
                                  ELSE eval_expr(m, s.init, d)
                         IN  IF v.sig # NoSig THEN v
                             ELSE Done(EnvPut(v.m, Key(s.name), v.val), Null)
                   [] s.kind = "assign" -> ExecAssign(m, s, d)
                   [] s.kind = "expr" ->
                         LET v == eval_expr(m, s.expr, d)
                         IN  IF v.sig # NoSig THEN v ELSE Done(v.m, Null)
                   [] s.kind = "if" ->
                         LET c == eval_expr(m, s.cond, d)
                         IN  IF c.sig # NoSig THEN c
                             ELSE IF Truthy(c.val) THEN exec_stmt(c.m, s.then, d)
                             ELSE IF s.otherwise # NoAst THEN exec_stmt(c.m, s.otherwise, d)
                             ELSE Done(c.m, Null)
                   [] s.kind = "while" -> WhileLoop(m, s, d)
                   [] s.kind = "for" ->
                         LET i == IF s.init = NoAst THEN Done(m, Null)
                                  ELSE IF s.init.kind = "vardecl" THEN exec_stmt(m, s.init, d)
                                  ELSE IF s.init.kind = "expr" THEN eval_expr(m, s.init.expr, d)
                                  ELSE eval_expr(m, s.init, d)
                         IN  IF i.sig # NoSig THEN i ELSE ForLoop(i.m, s, d)
                   [] s.kind = "foreach" ->
                         LET seq == ForeachSeq(m, s)
                         IN  IF seq.t = "list" THEN ForeachLoop(m, s, seq.items, d)
                             ELSE (CASE seq.t # "str" -> Throw(m, "TypeError", <<>>))
                   [] s.kind = "return" ->
                         LET v == IF s.value = NoAst THEN Done(m, Null)
                                  ELSE eval_expr(m, s.value, d)
                         IN  IF v.sig # NoSig THEN v
                             ELSE [m |-> v.m, val |-> Null, sig |-> ReturnSignal(v.val)]
                   [] s.kind = "func" -> Done([m EXCEPT !.fns = Put(@, Key(s.name), s)], Null))

(***************************************************************************)
(* run_source, one top-level item at a time                                *)
(***************************************************************************)
\* The interpreter state run_source works on: env = rt.globals.
TopState == [g |-> globals, l |-> EmptyDict, top |-> TRUE, fns |-> functions, out |-> stdout]

\* run_source without its first loop: nothing is registered ahead of execution.
HoistFrom_Nothing(m, body, i) == m

\* for item in prog['body']: if item['kind']=='func': rt.exec_stmt(env, item)
RECURSIVE HoistFrom(_, _, _)
HoistFrom(m, body, i) ==
    IF i > Len(body) THEN m
    ELSE IF body[i].kind = "func" THEN HoistFrom(exec_stmt(m, body[i], 0).m, body, i + 1)
    ELSE HoistFrom(m, body, i + 1)

\* The first loop of run_source.
Hoist ==
    /\ phase = "hoist"
    /\ functions' = HoistFrom(TopState, prog, 1).fns
    /\ phase' = "exec"
    /\ pc' = 1
    /\ UNCHANGED <<prog, globals, stdout, result, error>>
    /\ UNCHANGED <<frontVars, replVars>>

\* One round of the second loop of run_source: a function declaration is
\* passed over, any other item is executed; an exception leaves run_source.
ExecItem ==
    /\ phase = "exec"
    /\ pc <= Len(prog)
    /\ LET r == IF prog[pc].kind # "func" THEN exec_stmt(TopState, prog[pc], 0)
                ELSE Done(TopState, Null)
       IN  /\ globals' = r.m.g
           /\ functions' = r.m.fns
           /\ stdout' = r.m.out
           /\ IF r.sig = NoSig THEN /\ pc' = pc + 1
                                    /\ UNCHANGED <<phase, error>>
              ELSE /\ phase' = IF r.sig.type = "Hang" THEN "hung" ELSE "raised"
                   /\ error' = r.sig
                   /\ pc' = pc
    /\ UNCHANGED <<prog, result>>
    /\ UNCHANGED <<frontVars, replVars>>

\* node('call', 'Main', []) of line 368: node is defined as node(kind, **kw),
\* so a call with three positional arguments raises TypeError before the node
\* is built, and before exec_stmt is called.
MainCallNode == [err |-> "TypeError", node |-> NoAst]

\* Lines 367-370 when 'Main' is in rt.functions: only a ReturnSignal is caught.
CallMain ==
    /\ phase = "exec"
    /\ pc > Len(prog)
    /\ Key(ID_Main) \in DOMAIN functions
    /\ IF MainCallNode.err # "none"
       THEN /\ phase' = "raised"
            /\ error' = Sig(MainCallNode.err, <<>>, Null)
            /\ UNCHANGED <<globals, functions, stdout, result>>
       ELSE LET r == exec_stmt(TopState, ExprStmtNode(MainCallNode.node), 0)
            IN  /\ globals' = r.m.g
                /\ functions' = r.m.fns
                /\ stdout' = r.m.out
                /\ IF r.sig.type = "ReturnSignal"
                   THEN phase' = "returned" /\ result' = r.sig.val /\ UNCHANGED error
                   ELSE IF r.sig = NoSig
                   THEN phase' = "returned" /\ result' = Null /\ UNCHANGED error
                   ELSE /\ phase' = IF r.sig.type = "Hang" THEN "hung" ELSE "raised"
                        /\ error' = r.sig
                        /\ UNCHANGED result
    /\ UNCHANGED <<prog, pc>>
    /\ UNCHANGED <<frontVars, replVars>>

\* Line 370 when there is no 'Main': return None.
ReturnNone ==
    /\ phase = "exec"
    /\ pc > Len(prog)
    /\ Key(ID_Main) \notin DOMAIN functions
    /\ phase' = "returned"
    /\ result' = Null
    /\ UNCHANGED <<prog, pc, globals, functions, stdout, error>>
    /\ UNCHANGED <<frontVars, replVars>>

(***************************************************************************)
(* The bounded programs: at most MaxItems top-level items, each one of the *)
(* statements below (as parse_program returns them for the text shown)     *)
(***************************************************************************)
Lit(c) == NumberNode(<<c>>)

Var(c) == VarNode(<<<<c>>>>)

Call0(parts) == CallNode(parts, <<>>)

WriteLineCall == Call0(<<ID_Console, ID_WriteLine>>)

\* var g = 1;
T_DeclG == VarDeclNode("var", <<"g">>, Lit("1"))
\* var v = 1;
T_DeclV == VarDeclNode("var", <<"v">>, Lit("1"))
\* var xs = List();
T_DeclXs == VarDeclNode("var", <<"x", "s">>, Call0(<<ID_List>>))
\* g = 2;
T_AssignG == AssignNode(Var("g"), Lit("2"))
\* f();
T_CallF == ExprStmtNode(Call0(<<<<"f">>>>))
\* h();
T_CallH == ExprStmtNode(Call0(<<<<"h">>>>))
\* var r = f();
T_DeclR == VarDeclNode("var", <<"r">>, Call0(<<<<"f">>>>))
\* false && Console.WriteLine();
T_And == ExprStmtNode(BinNode(<<"&", "&">>, BoolNode(FALSE), WriteLineCall))
\* true || h();
T_Or == ExprStmtNode(BinNode(<<"|", "|">>, BoolNode(TRUE), Call0(<<<<"h">>>>)))
\* var n = xs.size();
T_Size == VarDeclNode("var", <<"n">>, Call0(<<<<"x", "s">>, <<"s", "i", "z", "e">>>>))
\* return 1;
T_Return == ReturnNode(Lit("1"))
\* if (g == 2) Console.WriteLine();
T_IfG == IfNode(BinNode(<<"=", "=">>, Var("g"), Lit("2")), ExprStmtNode(WriteLineCall), NoAst)

\* while (g < 2) g = g + 1;
T_While ==
    WhileNode(BinNode(<<"<">>, Var("g"), Lit("2")),
              AssignNode(Var("g"), BinNode(<<"+">>, Var("g"), Lit("1"))))
\* for (var i = 0; i < 2; ) i = i + 1;
T_For ==
    ForNode(VarDeclNode("var", <<"i">>, Lit("0")), BinNode(<<"<">>, Var("i"), Lit("2")), NoAst,
            AssignNode(Var("i"), BinNode(<<"+">>, Var("i"), Lit("1"))))

\* foreach (var c in xs) g = 3;
T_Foreach == ForeachNode(<<"c">>, <<"x", "s">>, AssignNode(Var("g"), Lit("3")))

\* namespace N { void h() { var v = 2; } }
T_Namespace ==
    BlockNode(<<FuncNode(<<"v", "o", "i", "d">>, <<"h">>, <<>>,
                         BlockNode(<<VarDeclNode("var", <<"v">>, Lit("2"))>>))>>)

Void == <<"v", "o", "i", "d">>

\* void f() { g = 2; }
F_SetG == FuncNode(Void, <<"f">>, <<>>, BlockNode(<<AssignNode(Var("g"), Lit("2"))>>))
\* void f() { w = 2; }
F_SetW == FuncNode(Void, <<"f">>, <<>>, BlockNode(<<AssignNode(Var("w"), Lit("2"))>>))
\* void f() { var v = 2; return v; }
F_Local ==
    FuncNode(Void, <<"f">>, <<>>,
             BlockNode(<<VarDeclNode("var", <<"v">>, Lit("2")), ReturnNode(Var("v"))>>))
\* void f() { if (true) { while (true) for (;;) { return 3; } } }
F_Nested ==
    FuncNode(Void, <<"f">>, <<>>,
             BlockNode(<<IfNode(BoolNode(TRUE),
                                BlockNode(<<WhileNode(BoolNode(TRUE),
                                                      ForNode(NoAst, NoAst, NoAst,
                                                              BlockNode(<<ReturnNode(Lit("3"))>>)))>>),
                                NoAst)>>))
\* void f() { var v = 1; h(); return v; }
F_CallH ==
    FuncNode(Void, <<"f">>, <<>>,
             BlockNode(<<VarDeclNode("var", <<"v">>, Lit("1")),
                         ExprStmtNode(Call0(<<<<"h">>>>)),
                         ReturnNode(Var("v"))>>))
\* void f() { f(); }
F_Rec == FuncNode(Void, <<"f">>, <<>>, BlockNode(<<ExprStmtNode(Call0(<<<<"f">>>>))>>))
\* void Main() { return 3; }
F_Main == FuncNode(Void, ID_Main, <<>>, BlockNode(<<ReturnNode(Lit("3"))>>))

TopItems ==
    {T_DeclG, T_DeclV, T_DeclXs, T_AssignG, T_CallF, T_CallH, T_DeclR, T_And, T_Or,
     T_Size, T_Return, T_IfG, T_While, T_For, T_Foreach, T_Namespace,
     F_SetG, F_SetW, F_Local, F_Nested, F_CallH, F_Rec, F_Main}

\* The variables of the lexer and parser while run_source runs.
FrontIdle ==
    /\ src = <<>>
    /\ toks = <<>>
    /\ lexError = NoLexError
    /\ ast = NoAst
    /\ fpc = "idle"

\* prog = parse_program(src); rt = Runtime(); env = rt.globals
Init ==
    /\ prog \in SeqsUpTo(TopItems, MaxItems)
    /\ phase = "hoist"
    /\ pc = 0
    /\ globals = NewRuntime.g
    /\ functions = NewRuntime.fns
    /\ stdout = NewRuntime.out
    /\ result = Null
    /\ error = NoSig
    /\ FrontIdle
    /\ ReplIdle

Next == Hoist \/ ExecItem \/ CallMain \/ ReturnNone

Spec == Init /\ [][Next]_vars

(***************************************************************************)
(* Properties of run_source                                                *)
(***************************************************************************)
\* The second loop of run_source is about to execute prog[pc].
AtItem == phase = "exec" /\ pc \in 1..Len(prog)

\* A literal operand, whose value is known without evaluating anything.
IsLiteral(e) == e.kind \in {"bool", "number"}

\* e is  l && r  with a falsy literal l, or  l || r  with a truthy literal l.
LeftDecides(e) ==
    /\ e.kind = "bin"
    /\ e.op \in {<<"&", "&">>, <<"|", "|">>}
    /\ IsLiteral(e.left)
    /\ (e.op = <<"&", "&">>) = ~Truthy(e.left.value)

\* C1: when the left operand of && is falsy, or the left operand of || is
\* truthy, the right operand is not evaluated: executing such an expression
\* statement prints nothing, raises nothing and changes no binding.
C1_ShortCircuit ==
    [][(AtItem /\ prog[pc].kind = "expr" /\ LeftDecides(prog[pc].expr)) =>
          /\ stdout' = stdout
          /\ phase' = "exec"
          /\ globals' = globals
          /\ functions' = functions]_vars

\* The statements of the body of the registered function named n.
BodyOf(n) == functions[n].body.body

\* C2: when the program declares Main, run_source calls it with no arguments
\* after the top-level statements and its result is the value Main returned
\* (None when Main returns nothing); without Main the result is None.
C2_MainResult ==
    /\ (phase # "exec" /\ pc > Len(prog) /\ Key(ID_Main) \in DOMAIN functions
            /\ Len(BodyOf(Key(ID_Main))) = 1 /\ BodyOf(Key(ID_Main))[1].kind = "return"
            /\ IsLiteral(BodyOf(Key(ID_Main))[1].value)) =>
          (phase = "returned" /\ result = BodyOf(Key(ID_Main))[1].value.value)
    /\ (phase = "returned" /\ Key(ID_Main) \notin DOMAIN functions) => result = Null

\* item is the statement  f();  for a registered user function f.
IsUserCallStmt(item) ==
    /\ item.kind = "expr"
    /\ item.expr.kind = "call"
    /\ item.expr.callee \in DOMAIN functions

\* The body of the function is the single statement  n = literal;
IsSingleAssign(body) ==
    /\ Len(body) = 1
    /\ body[1].kind = "assign"
    /\ body[1].target.kind = "var"
    /\ IsLiteral(body[1].value)

\* C3: an assignment to a name bound in the local environment updates that
\* binding; to a name bound only in globals it updates the global binding,
\* also from inside a function body, so that top-level code reads the new
\* value; to a name bound nowhere it creates a local binding.
C3_AssignUpdatesGlobal ==
    [][/\ (AtItem /\ prog[pc].kind = "assign" /\ prog[pc].target.kind = "var"
               /\ IsLiteral(prog[pc].value)) =>
             /\ phase' = "exec"
             /\ prog[pc].target.name \in DOMAIN globals'
             /\ globals'[prog[pc].target.name] = prog[pc].value.value
       /\ (AtItem /\ IsUserCallStmt(prog[pc]) /\ prog[pc].expr.args = <<>>
               /\ IsSingleAssign(BodyOf(prog[pc].expr.callee))) =>
             LET a == BodyOf(prog[pc].expr.callee)[1]
             IN  /\ phase' = "exec"
                 /\ IF a.target.name \in DOMAIN globals
                    THEN /\ a.target.name \in DOMAIN globals'
                         /\ globals'[a.target.name] = a.value.value
                    ELSE globals' = globals]_vars

\* The names a statement declares with a VarDecl, at any nesting depth.
RECURSIVE DeclNames(_)
DeclNames(s) ==
    CASE s.kind = "vardecl" -> {Key(s.name)}
      [] s.kind = "block" -> UNION {DeclNames(s.body[i]) : i \in 1..Len(s.body)}
      [] s.kind = "if" -> DeclNames(s.then)
                            \cup (IF s.otherwise = NoAst THEN {} ELSE DeclNames(s.otherwise))
      [] s.kind \in {"while", "foreach"} -> DeclNames(s.body)
      [] s.kind = "for" -> DeclNames(s.body)
                             \cup (IF s.init = NoAst THEN {} ELSE DeclNames(s.init))
      [] OTHER -> {}

\* The names that are local to the registered function named n: its
\* parameters and the names its body declares.
LocalNames(n) ==
    {Key(functions[n].params[i]) : i \in 1..Len(functions[n].params)}
        \cup DeclNames(functions[n].body)

\* The function body is  var n = literal; h(); return n;  where the registered
\* function h declares a local of the same name n.
CallsShadowingCallee(body) ==
    /\ Len(body) = 3
    /\ body[1].kind = "vardecl" /\ body[1].init # NoAst /\ IsLiteral(body[1].init)
    /\ body[2].kind = "expr" /\ body[2].expr.kind = "call"
    /\ body[2].expr.callee \in DOMAIN functions
    /\ Key(body[1].name) \in LocalNames(body[2].expr.callee)
    /\ body[3].kind = "return" /\ body[3].value = VarNode(Key(body[1].name))

\* C4: a name a function declares with a VarDecl (or binds as a parameter)
\* is local to that invocation: a call leaves a binding of the same name in
\* the caller as it was, and leaves the name unbound in the caller if it was
\* unbound; a caller that is itself a function keeps its own local across the
\* call of a function that declares the same name.
C4_LocalsScopedToInvocation ==
    [][/\ (AtItem /\ IsUserCallStmt(prog[pc])) =>
             \A n \in LocalNames(prog[pc].expr.callee) :
                 /\ (n \in DOMAIN globals) = (n \in DOMAIN globals')
                 /\ n \in DOMAIN globals => globals'[n] = globals[n]
       /\ (AtItem /\ prog[pc].kind = "vardecl" /\ prog[pc].init # NoAst
               /\ prog[pc].init.kind = "call" /\ prog[pc].init.callee \in DOMAIN functions
               /\ CallsShadowingCallee(BodyOf(prog[pc].init.callee))
               /\ phase' = "exec") =>
             globals'[Key(prog[pc].name)] = BodyOf(prog[pc].init.callee)[1].init.value]_vars

\* A top-level  f();  has returned to a caller whose v is still 1, although
\* the f that ran declares  var v = 2.
C4_CallerBindingKept ==
    /\ phase = "exec" /\ pc \in 2..(Len(prog) + 1)
    /\ prog[pc - 1] = T_CallF
    /\ Key(<<"f">>) \in DOMAIN functions
    /\ functions[Key(<<"f">>)] = F_Local
    /\ Key(<<"v">>) \in DOMAIN globals
    /\ globals[Key(<<"v">>)] = IntVal(1)

\* The function names declared by the func items of body from index i on.
FuncItemNames(body, i) == {Key(body[j].name) : j \in {k \in i..Len(body) : body[k].kind = "func"}}

\* The index of the last func item of prog that declares the name n.
LastDecl(n) ==
    CHOOSE j \in 1..Len(prog) :
        /\ prog[j].kind = "func" /\ Key(prog[j].name) = n
        /\ \A k \in (j + 1)..Len(prog) : ~(prog[k].kind = "func" /\ Key(prog[k].name) = n)

DeclaredBelow(i) ==
    FuncItemNames(prog, i + 1)
        \cup UNION {FuncItemNames(prog[j].body, 1) :
                        j \in {k \in (i + 1)..Len(prog) : prog[k].kind = "block"}}

C8_SequenceMembers ==
    [][(AtItem /\ prog[pc].kind = "vardecl" /\ prog[pc].init # NoAst
            /\ prog[pc].init.kind = "call" /\ Len(prog[pc].init.callee) = 2
            /\ prog[pc].init.callee[2] = <<"s", "i", "z", "e">>
            /\ Key(prog[pc].init.callee[1]) \in DOMAIN globals
            /\ globals[Key(prog[pc].init.callee[1])].t = "list") =>
          /\ phase' = "exec"
          /\ Key(prog[pc].name) \in DOMAIN globals'
          /\ globals'[Key(prog[pc].name)]
                 = IntVal(Len(globals[Key(prog[pc].init.callee[1])].items))]_vars

\* C10: every ReturnSignal is caught by the nearest enclosing function call;
\* none leaves run_source.
C10_ReturnSignalContained == phase = "raised" => error.type # "ReturnSignal"

(***************************************************************************)
(* The REPL of main (lines 385-396)                                        *)
(***************************************************************************)
MaxLines == 3

\* The lines the bounded standard input is made of.
ReplLines ==
    {<<>>, <<"x">>, <<"x", ";">>, <<";", " ">>, <<"}">>, <<" ", "}", " ">>, <<";", "x">>, <<" ">>}

\* str.strip() for the whitespace of the bounded lines.
RECURSIVE StripLeft(_)
StripLeft(s) == IF s # <<>> /\ Head(s) \in WsChars THEN StripLeft(Tail(s)) ELSE s

RECURSIVE StripRight(_)
StripRight(s) ==
    IF s # <<>> /\ s[Len(s)] \in WsChars THEN StripRight(SubSeq(s, 1, Len(s) - 1)) ELSE s

Strip(s) == StripRight(StripLeft(s))

EndsWith(s, c) == s # <<>> /\ s[Len(s)] = c

\* line.strip().endswith(';') or line.strip().endswith('}')
Terminated(line) == EndsWith(Strip(line), ";") \/ EndsWith(Strip(line), "}")

\* What run_source(buf) can do, seen from its caller: return, raise an
\* Exception (ParseError, NameError, TypeError, ReturnSignal, ...), or not
\* terminate.  Before that the program may have read lines of standard input
\* itself, with Console.ReadLine (lines 247-249).
RunOutcomes == {"returned", "raised", "hung"}

\* k times FALSE: lines read by the program, not by the REPL.
ReadByProgram(k) == [i \in 1..k |-> FALSE]

\* buf=''  moved into the try statement, after run_source(buf): the buffer is
\* kept when the chunk raises.
BufAfterSubmit_KeptOnError(chunk, outcome) == IF outcome = "raised" THEN chunk ELSE <<>>

\* buf=''  after the try statement (line 395), whatever run_source did.
BufAfterSubmit(chunk, outcome) == <<>>

InitRepl ==
    /\ input \in SeqsUpTo(ReplLines, MaxLines)
    /\ rpos = 0
    /\ byRepl = <<>>
    /\ buf = <<>>
    /\ rstate = "reading"
    /\ runs = <<>>
    /\ reports = 0
    /\ FrontIdle
    /\ RunIdle

\* One round of the while loop: input() returns the next line.
ReadLine ==
    /\ rstate = "reading"
    /\ rpos < Len(input)
    /\ LET line == input[rpos + 1]
           chunk == buf \o line \o <<"\n">>
       IN  IF Terminated(line)
           THEN \E outcome \in RunOutcomes, k \in 0..(Len(input) - rpos - 1) :
                    /\ runs' = Append(runs, [chunk |-> chunk, outcome |-> outcome])
                    /\ rpos' = rpos + 1 + k
                    /\ byRepl' = Append(byRepl, TRUE) \o ReadByProgram(k)
                    /\ IF outcome = "hung"
                       THEN rstate' = "hung" /\ buf' = chunk /\ UNCHANGED reports
                       ELSE /\ reports' = IF outcome = "raised" THEN reports + 1 ELSE reports
                            /\ buf' = BufAfterSubmit(chunk, outcome)
                            /\ UNCHANGED rstate
           ELSE /\ buf' = chunk
                /\ rpos' = rpos + 1
                /\ byRepl' = Append(byRepl, TRUE)
                /\ UNCHANGED <<rstate, runs, reports>>
    /\ UNCHANGED input
    /\ UNCHANGED <<frontVars, runVars>>

\* input() raises EOFError: the loop is left and main returns.
EndOfInput ==
    /\ rstate = "reading"
    /\ rpos = Len(input)
    /\ rstate' = "exited"
    /\ UNCHANGED <<input, rpos, byRepl, buf, runs, reports>>
    /\ UNCHANGED <<frontVars, runVars>>

NextRepl == ReadLine \/ EndOfInput

SpecRepl == InitRepl /\ [][NextRepl]_vars

\* The text of those of the lines input[i..j] that the REPL read, each
\* followed by a newline.
RECURSIVE LinesText(_, _)
LinesText(i, j) ==
    IF i > j THEN <<>>
    ELSE (IF byRepl[i] THEN input[i] \o <<"\n">> ELSE <<>>) \o LinesText(i + 1, j)

\* The index of the last terminated line the REPL read among the first k
\* lines, 0 if none.
RECURSIVE LastTerminated(_)
LastTerminated(k) ==
    IF k = 0 THEN 0
    ELSE IF byRepl[k] /\ Terminated(input[k]) THEN k
    ELSE LastTerminated(k - 1)

\* The concatenation of the chunks handed to run_source in the first k calls.
RECURSIVE ChunksText(_)
ChunksText(k) == IF k = 0 THEN <<>> ELSE ChunksText(k - 1) \o runs[k].chunk

\* The number of calls of run_source that raised.
Raises == Cardinality({k \in 1..Len(runs) : runs[k].outcome = "raised"})

\* C6: after a submitted chunk raises, the error is reported, the buffer is
\* empty before the next line is read, the REPL goes on reading, and no text
\* of the failed chunk is part of a later chunk: the chunks are consecutive,
\* disjoint stretches of the lines the REPL read, and the buffer holds exactly
\* the lines it read since the last submitted one; on end-of-input the REPL
\* exits.
C6_ReplBufferCleared ==
    /\ reports = Raises
    /\ (runs # <<>> /\ runs[Len(runs)].outcome = "raised") => rstate \in {"reading", "exited"}
    /\ Len(byRepl) = rpos
    /\ rstate # "hung" =>
          /\ buf = LinesText(LastTerminated(rpos) + 1, rpos)
          /\ ChunksText(Len(runs)) = LinesText(1, LastTerminated(rpos))
    /\ \A k \in 1..Len(runs) : Terminated(StripRight(runs[k].chunk))
    /\ rstate = "exited" => rpos = Len(input)
    /\ (rstate = "reading" /\ rpos = Len(input)) => ENABLED EndOfInput

\* A chunk raised, and a later chunk was submitted and the REPL left at
\* end-of-input.
C6_SubmittedAfterError ==
    /\ rstate = "exited"
    /\ Len(runs) >= 2
    /\ runs[1].outcome = "raised"
    /\ reports >= 1

\* C7: a source string with a character that starts no lexical category makes
\* lex report a lexical error carrying that character's offset and produce no
\* token list; the character is never skipped.
C7_LexicalErrorReported ==
    (fpc = "lexed" /\ SkippedFrom(src, 1) # {}) =>
        /\ lexError.raised
        /\ lexError.pos \in SkippedFrom(src, 1)
        /\ toks = <<>>

====
